---- MODULE Spec2Model ----
(***************************************************************************)
(* Model of acpr-buttplug's haptic subsystem (src/src/dll_code.rs):        *)
(*   - initialize(): the config file and its fallback, the logger, and     *)
(*     the start of run() with the server build, connect() and the scan,   *)
(*   - the device-communication service as the program sees it: device     *)
(*     handles with a liveness flag, and the client's event stream,        *)
(*   - the discovery task spawned by run() that maintains DEVICES under    *)
(*     its mutex,                                                          *)
(*   - the periodic control loop of run() with its stopped_vibration flag, *)
(*     the two raw reads of game memory, the intensity mapping and the     *)
(*     start / stop fan-out over the registry snapshot,                    *)
(*   - the hit channel that hit_hook (src/src/hooks.rs) sends on.          *)
(*                                                                         *)
(* Intensities are f64 in the code.  Every value the loop computes is      *)
(* h/28 or h/56 for an integer h in 0..28 (division by 2.0 is exact in     *)
(* binary floating point), so the model keeps an intensity as its          *)
(* numerator over IntensityUnit = 28 * 2.  A configured vibration_strength *)
(* is an integer multiple of 1.0, or NaN.                                  *)
(***************************************************************************)
EXTENDS Integers, Sequences, FiniteSets, TLC

\* ---------------------------------------------------------------- bounds
\* SpecRegistry (registry and discovery task alone):
\* number of physical devices (device identifiers 1..NumDevices)
NumDevices == 3
\* how many times one device may connect (each connect makes a new handle)
MaxGen == 2
\* capacity of the client's event stream kept by the model
MaxQueue == 3
\* Spec (the control loop running beside the discovery task): the devices
\* that may appear and the capacity of the event stream
LoopDevices == 2
LoopQueue == 2
\* SpecStartup: how many hit notifications the model keeps in the channel
MaxHits == 2

\* ------------------------------------------------------ program constants
\* hitstop_to_vibe_intensity divides by 28.0
HitstopCeiling == 28
\* run() halves the sampled byte: get_current_hitstop() / 2
HitstopDivisor == 2
\* "if !in_hitstun { intensity /= 2.0 }"
BlockedDivisor == 2
\* the hitstun test ORs the status byte with 0b000001
HitstunMask == 1
\* a u8 holds 0..255
ByteMax == 255

\* intensity 1.0 in model units: the common denominator of h/28 and h/56
IntensityUnit == HitstopCeiling * BlockedDivisor

Devices == 1..NumDevices
\* a handle is one Arc<ButtplugClientDevice>: <<identifier, generation>>
Handles == Devices \X (1..MaxGen)
Id(h) == h[1]

VARIABLES
    file,       \* ./acpr_buttplug_config.toml: [state, config]
    fs,         \* which file operations of initialize() succeed
    console,    \* the lines initialize() has printed on the console
    logger,     \* the level of the installed WriteLogger, "none" without one
    errlog,     \* the log::error! records run() has issued while setting up
    hit_channel,    \* number of Event::Hit waiting in the hit channel
    gen,        \* gen[d]: how many handles the service has made for device d
    online,     \* online[d]: device d is connected right now
    scalar,     \* scalar[d]: message_attributes().scalar_cmd().is_some()
    actuated,   \* actuated[d]: last command delivered to d was a start
    scanning,   \* start_scanning() was called and ScanningFinished not yet sent
    events,     \* the client's event stream, oldest first
    discovery,  \* the discovery task: "unspawned", "running" or "panicked"
    DEVICES,    \* the registry: Vec<Arc<ButtplugClientDevice>> behind the Mutex
    lock,       \* who holds the DEVICES mutex: "free", "loop" or "discovery"
    CONFIG,     \* the process-wide Config, fixed by initialize()
    pc,         \* where the program is.  Starting up: "initialize", "run",
                \* "built", "connected", "unconnected"; "returned" once run()
                \* has returned; in the loop: "sleep", "await", "done"
    stopped_vibration,  \* run()'s flag: the stop fan-out has been done
    sampled,    \* what get_current_hitstop() returned in this tick
    stun_read,  \* what either_player_in_hitstop() found: "null", "clear", "set"
    hitstop,    \* this tick's hitstop (the sampled byte halved)
    in_hitstun, \* this tick's in_hitstun
    base,       \* this tick's intensity as hitstop_to_vibe_intensity returned it
    intensity,  \* this tick's intensity as handed to vibrate_device
    kind,       \* what this tick does: "start", "stop", "quiet"; "none" asleep
    last,       \* what the tick before did ("none" before the first tick)
    vibes,      \* this tick's futures, one per handle of the registry snapshot
    next,       \* index in vibes of the future being awaited
    results,    \* how each finished future of this tick ended
    speed       \* the VibrateCommand::Speed of the start call being awaited

bootVars == <<file, fs, console, logger, errlog>>
envVars == <<gen, online, scalar, actuated, scanning>>
regVars == <<events, discovery, DEVICES>>
sampleVars == <<sampled, stun_read, hitstop, in_hitstun, base, intensity>>
loopVars == <<CONFIG, pc, stopped_vibration, sampleVars, kind, last, vibes,
              next, results, speed>>

\* device.connected(): a handle is connected iff it is its device's newest
\* handle and the device is online; an older handle never comes back.
connected(h) == gen[Id(h)] = h[2] /\ online[Id(h)]

\* ------------------------------------------------------------ event stream
DeviceAdded(h)   == [type |-> "DeviceAdded", dev |-> h]
DeviceRemoved(h) == [type |-> "DeviceRemoved", dev |-> h]
ScanningFinished == [type |-> "ScanningFinished", dev |-> <<0, 0>>]

\* The stream delivers to the discovery task only; once the task is gone its
\* receiver is dropped and nothing is queued any more.
Emit(ev) ==
    IF discovery = "running" THEN Append(events, ev) ELSE events

CanEmit(cap) == discovery = "panicked" \/ Len(events) < cap

\* "done" is the instant between the last await of a tick and its sleep: the
\* control loop has not suspended, so on the current-thread runtime nothing
\* else is scheduled before TickEnds.
Suspended == pc # "done"

\* ------------------------------------------- the device-communication side
\* A device is found by the scan: the client makes a new handle for it and
\* sends DeviceAdded(handle).
\* What the device can do is fixed the first time it is seen.
DeviceConnects(d, maxgen, cap) ==
    /\ Suspended
    /\ ~online[d]
    /\ gen[d] < maxgen
    /\ CanEmit(cap)
    /\ gen' = [gen EXCEPT ![d] = gen[d] + 1]
    /\ online' = [online EXCEPT ![d] = TRUE]
    /\ \E s \in BOOLEAN :
         /\ gen[d] > 0 => s = scalar[d]
         /\ scalar' = [scalar EXCEPT ![d] = s]
    /\ events' = Emit(DeviceAdded(<<d, gen[d] + 1>>))
    /\ UNCHANGED <<actuated, scanning, discovery, DEVICES, lock>>
    /\ UNCHANGED <<loopVars, bootVars, hit_channel>>

\* A device goes away: its handle reports disconnected from now on and the
\* client sends DeviceRemoved(handle).
DeviceDisconnects(d, cap) ==
    /\ Suspended
    /\ online[d]
    /\ CanEmit(cap)
    /\ online' = [online EXCEPT ![d] = FALSE]
    /\ events' = Emit(DeviceRemoved(<<d, gen[d]>>))
    /\ UNCHANGED <<gen, scalar, actuated, scanning, discovery, DEVICES, lock>>
    /\ UNCHANGED <<loopVars, bootVars, hit_channel>>

\* The scan started by start_scanning() ends: an event the task ignores.
ScanEnds(cap) ==
    /\ Suspended
    /\ scanning
    /\ CanEmit(cap)
    /\ scanning' = FALSE
    /\ events' = Emit(ScanningFinished)
    /\ UNCHANGED <<gen, online, scalar, actuated, discovery, DEVICES, lock>>
    /\ UNCHANGED <<loopVars, bootVars, hit_channel>>

\* ------------------------------------------------------ the discovery task
\* DEVICES.lock().await returns at once when the mutex is free
lock_free == lock = "free"

\* The holder of the mutex when the discovery task suspends again: the guard
\* `devices` is a local of the match arm, dropped at the arm's end, and
\* dropped by the unwinding if the arm panics (a tokio Mutex is not poisoned).
guard_after_arm == "free"

\* mutant: the guard of the snapshot is kept while the futures are awaited
guard_kept_by_loop == "loop"

\* The holder of the mutex when the control loop suspends after its snapshot:
\* the guard is a temporary of the `for` statement's iterator expression,
\* dropped when the statement ends, before the first vibe.await.
guard_after_snapshot == "free"

\* devices.push(device)
push(devs, h) == Append(devs, h)

\* the indices (0-based, ascending) of the entries that report disconnected
RECURSIVE disconnected_from(_, _)
disconnected_from(devs, idx) ==
    IF idx >= Len(devs) THEN <<>>
    ELSE IF ~connected(devs[idx + 1])
         THEN <<idx>> \o disconnected_from(devs, idx + 1)
         ELSE disconnected_from(devs, idx + 1)

disconnected_devices(devs) == disconnected_from(devs, 0)

\* Vec::remove(idx): panics when idx is out of bounds, else shifts the tail left
remove_panics(devs, idx) == idx >= Len(devs)
remove(devs, idx) == SubSeq(devs, 1, idx) \o SubSeq(devs, idx + 2, Len(devs))

\* disconnected_devices.into_iter().for_each(|idx| { devices.remove(idx); })
\* Each index is used on the vector as the earlier removals left it.  A panic
\* unwinds with the vector as it is at that moment.
RECURSIVE for_each_remove(_, _)
for_each_remove(devs, idxs) ==
    IF idxs = <<>> THEN [devices |-> devs, panicked |-> FALSE]
    ELSE IF remove_panics(devs, Head(idxs))
         THEN [devices |-> devs, panicked |-> TRUE]
         ELSE for_each_remove(remove(devs, Head(idxs)), Tail(idxs))

\* the whole DeviceRemoved arm, run under the registry lock
reconcile(devs) == for_each_remove(devs, disconnected_devices(devs))

\* events.next().await yields the oldest event while the control loop is
\* suspended (both tasks share one current-thread runtime)
NextEvent(type) ==
    /\ Suspended
    /\ discovery = "running"
    /\ events # <<>>
    /\ Head(events).type = type

OnDeviceAdded ==
    /\ NextEvent("DeviceAdded")
    /\ lock_free
    /\ lock' = guard_after_arm
    /\ DEVICES' = push(DEVICES, Head(events).dev)
    /\ events' = Tail(events)
    /\ UNCHANGED <<envVars, discovery>>
    /\ UNCHANGED <<loopVars, bootVars, hit_channel>>

OnDeviceRemoved ==
    /\ NextEvent("DeviceRemoved")
    /\ lock_free
    /\ lock' = guard_after_arm
    /\ LET r == reconcile(DEVICES) IN
        /\ DEVICES' = r.devices
        /\ IF r.panicked
           THEN discovery' = "panicked" /\ events' = <<>>
           ELSE discovery' = "running" /\ events' = Tail(events)
    /\ UNCHANGED envVars
    /\ UNCHANGED <<loopVars, bootVars, hit_channel>>

OnOtherEvent ==
    /\ NextEvent("ScanningFinished")
    /\ events' = Tail(events)
    /\ UNCHANGED <<envVars, discovery, DEVICES, lock>>
    /\ UNCHANGED <<loopVars, bootVars, hit_channel>>

\* ------------------------------------------------------------- game memory
\* What the two unsafe reads can find behind PLAYER_1_STATE / PLAYER_2_STATE:
\* whether each pointer is null, and the bytes at offsets 0xFD and 0xC.
Mem(n1, n2, h1, h2, s1, s2) ==
    [p1_null |-> n1, p2_null |-> n2, p1_hitstop |-> h1, p2_hitstop |-> h2,
     p1_status |-> s1, p2_status |-> s2]

Max(a, b) == IF a >= b THEN a ELSE b
Min(a, b) == IF a <= b THEN a ELSE b
\* An f64 that is NaN.  Every other f64 of the model is a small integer (an
\* intensity in units of 1/IntensityUnit, or a strength), far above this one.
NaN == 0 - IntensityUnit * IntensityUnit * IntensityUnit
\* f64 * f64: NaN if either factor is NaN
fmul(a, b) == IF a = NaN \/ b = NaN THEN NaN ELSE a * b
\* f64::clamp: min if self < min, max if self > max, else self; both
\* comparisons are false on NaN, which is returned as it is
clamp(x, lo, hi) == IF x = NaN THEN NaN ELSE Max(lo, Min(x, hi))

\* u8 | u8, bit by bit
RECURSIVE BitOr(_, _)
BitOr(a, b) ==
    IF a = 0 THEN b
    ELSE IF b = 0 THEN a
    ELSE Max(a % 2, b % 2) + 2 * BitOr(a \div 2, b \div 2)

get_current_hitstop(m) ==
    IF m.p1_null \/ m.p2_null THEN 0
    ELSE Max(m.p1_hitstop, m.p2_hitstop)

either_player_in_hitstop(m) ==
    IF m.p1_null \/ m.p2_null THEN FALSE
    ELSE LET p1_in_hitstun == BitOr(m.p1_status, HitstunMask) # 0
             p2_in_hitstun == BitOr(m.p2_status, HitstunMask) # 0
         IN  p1_in_hitstun \/ p2_in_hitstun

\* what is in memory when either_player_in_hitstop reads it: no player
\* objects, or the hitstun bit (bit 0 of the byte at 0xC) of the two players
StunRead(m) ==
    IF m.p1_null \/ m.p2_null THEN "null"
    ELSE IF m.p1_status % 2 = 1 \/ m.p2_status % 2 = 1 THEN "set"
    ELSE "clear"

\* mutant: the sampled byte shifted right twice instead of halved
sample_quartered(byte) == byte \div (HitstopDivisor * HitstopDivisor)

\* let hitstop = get_current_hitstop() / 2   (u8 division)
halve_sample(byte) == byte \div HitstopDivisor

\* mutant: the quotient without the clamp
intensity_unclamped(h) == (h * IntensityUnit) \div HitstopCeiling

\* (hitstop / 28.0).clamp(0.0, 1.0), in units of 1/IntensityUnit
hitstop_to_vibe_intensity(h) ==
    clamp((h * IntensityUnit) \div HitstopCeiling, 0, IntensityUnit)

\* if !in_hitstun { intensity /= 2.0 }
attenuate(i, stun) == IF ~stun THEN i \div BlockedDivisor ELSE i

\* (strength * config.vibration_strength).clamp(0.0, 1.0)
vibrate_speed(strength, config) ==
    clamp(fmul(strength, config.vibration_strength), 0, IntensityUnit)

\* the value of a local the tick did not compute
NotComputed == 0 - 1

\* ---------------------------------------------------------------- inputs
\* configured vibration_strength values: any f64 the TOML file can name
\* (1 is the default 1.0; below 0, above 1, and nan)
StrengthValues == {0 - 1, 1, 2, NaN}
NoMatch == Mem(TRUE, TRUE, 0, 0, 0, 0)
\* memory contents the control loop meets in Spec
LoopMems ==
    {NoMatch} \cup
    {Mem(FALSE, FALSE, h[1], h[2], 0, 0) :
        h \in {<<0, 0>>, <<1, 0>>, <<2, 3>>, <<40, 7>>}}
\* what the second read of a tick in Spec meets: it looks at the pointers and
\* the status bytes only, and the match may have ended since the first read
StunMems == {NoMatch, Mem(FALSE, FALSE, 0, 0, 0, 0)}
\* memory contents drawn in SpecMap: every byte value of player 1's hitstop
WideMems ==
    [p1_null : BOOLEAN, p2_null : BOOLEAN,
     p1_hitstop : 0..ByteMax, p2_hitstop : {0, 29},
     p1_status : {0, 1, 2}, p2_status : {0, 1}]

\* memory contents drawn in SpecSpeed: a match in progress with every byte
\* value of the hitstop
ByteMems == {Mem(FALSE, FALSE, h, 0, 0, 0) : h \in 0..ByteMax}

\* --------------------------------------------------------- the control loop
\* mutant: the capability test left out, every future suspends in its call
poll_every(vs, i, res) == [next |-> i, results |-> res]

\* Polling the futures in order from index i: vibrate_device / stop_vibration
\* on a device without scalar_cmd only logs and finishes without suspending;
\* on any other device it suspends in dev.vibrate(..).await / dev.stop().await.
RECURSIVE poll_from(_, _, _)
poll_from(vs, i, res) ==
    IF i > Len(vs) THEN [next |-> i, results |-> res]
    ELSE IF ~scalar[Id(vs[i])]
         THEN poll_from(vs, i + 1, Append(res, "noop"))
         ELSE [next |-> i, results |-> res]

\* mutant: an Err leaves the fan-out (as `?` on the call would)
abort_on_error(vs, i, o) == IF o = "err" THEN Len(vs) + 1 ELSE i + 1

\* where the fan-out goes on once future i has ended with outcome o: an Err
\* is logged inside the future, and the loop awaits the next one
resume_after(vs, i, o) == i + 1

\* mutant: the flag is not set after the stop fan-out
flag_never_set(k, flag) == flag

\* stopped_vibration once every future of the tick has been awaited
flag_after(k, flag) == IF k = "stop" THEN TRUE ELSE flag

\* mutant: the loop starts with the flag set
initial_stopped_true == TRUE

\* let mut stopped_vibration = false;
initial_stopped == FALSE

\* mutant: the flag is written when the fan-out is dispatched, before its
\* futures have been awaited
mark_at_dispatch(k, vs, p, flag) ==
    /\ vibes' = vs
    /\ next' = p.next
    /\ results' = p.results
    /\ kind' = k
    /\ pc' = IF p.next > Len(vs) THEN "done" ELSE "await"
    /\ stopped_vibration' = flag_after(k, flag)
    /\ speed' = IF p.next <= Len(vs) /\ k = "start"
                THEN vibrate_speed(intensity', CONFIG)
                ELSE NotComputed

\* the loop has awaited futures up to p.next - 1 and stands at p.next; if
\* that is a vibrate_device future it is suspended in dev.vibrate(Speed(..))
\* (intensity' is this tick's intensity, fixed before the first future runs)
Proceed(k, vs, p, flag) ==
    /\ vibes' = vs
    /\ next' = p.next
    /\ results' = p.results
    /\ kind' = k
    /\ IF p.next > Len(vs)
       THEN pc' = "done" /\ stopped_vibration' = flag_after(k, flag)
       ELSE pc' = "await" /\ stopped_vibration' = flag
    /\ speed' = IF p.next <= Len(vs) /\ k = "start"
                THEN vibrate_speed(intensity', CONFIG)
                ELSE NotComputed

\* One iteration from the end of sleep() to its first suspension.  m1 is the
\* memory get_current_hitstop reads, m2 the memory either_player_in_hitstop
\* reads just after: the game runs in between, so they may differ.
Tick(m1, m2) ==
    /\ pc = "sleep"
    /\ sampled' = get_current_hitstop(m1)
    /\ hitstop' = halve_sample(sampled')
    /\ in_hitstun' = either_player_in_hitstop(m2)
    /\ stun_read' = StunRead(m2)
    /\ IF hitstop' = 0
       THEN /\ base' = NotComputed
            /\ intensity' = NotComputed
            /\ IF stopped_vibration
               THEN /\ Proceed("quiet", <<>>, poll_from(<<>>, 1, <<>>), TRUE)
                    /\ UNCHANGED lock
               ELSE /\ lock_free
                    /\ lock' = guard_after_snapshot
                    /\ Proceed("stop", DEVICES, poll_from(DEVICES, 1, <<>>),
                               stopped_vibration)
       ELSE /\ base' = hitstop_to_vibe_intensity(hitstop')
            /\ intensity' = attenuate(base', in_hitstun')
            /\ lock_free
            /\ lock' = guard_after_snapshot
            /\ Proceed("start", DEVICES, poll_from(DEVICES, 1, <<>>), FALSE)
    /\ UNCHANGED <<envVars, regVars, CONFIG, last, bootVars, hit_channel>>

\* what a delivered command does to the device
deliver(k, d) ==
    [actuated EXCEPT ![d] =
        IF k = "start" THEN speed # NaN /\ speed > 0 ELSE FALSE]

\* The awaited device call returns: Ok (only a connected device can answer)
\* or Err, which the future logs.  Then the loop polls the next futures.
\* A call that never returns is the behaviour in which this step is never
\* taken: the loop then stays at "await" for ever.
CallReturns(o) ==
    /\ pc = "await"
    /\ o = "ok" => connected(vibes[next])
    /\ actuated' = IF o = "ok" THEN deliver(kind, Id(vibes[next])) ELSE actuated
    /\ UNCHANGED <<gen, online, scalar, scanning, regVars, lock, CONFIG,
                   sampleVars, last, bootVars, hit_channel>>
    /\ Proceed(kind, vibes,
               poll_from(vibes, resume_after(vibes, next, o), Append(results, o)),
               stopped_vibration)

\* `continue`: the iteration's locals go out of scope and the loop sleeps.
TickEnds ==
    /\ pc = "done"
    /\ pc' = "sleep"
    /\ last' = kind
    /\ kind' = "none"
    /\ vibes' = <<>>
    /\ next' = 0
    /\ results' = <<>>
    /\ sampled' = 0
    /\ stun_read' = "null"
    /\ hitstop' = 0
    /\ in_hitstun' = FALSE
    /\ base' = NotComputed
    /\ intensity' = NotComputed
    /\ speed' = NotComputed
    /\ UNCHANGED <<envVars, regVars, lock, CONFIG, stopped_vibration,
                   bootVars, hit_channel>>

\* ----------------------------------------------------------------- startup
\* log_level values a config file may name (LevelFilter has six; these are
\* the two ends and the hard-coded one)
LogLevels == {"Off", "Error", "Trace"}

\* Config { vibration_strength: 1.0, log_level: LevelFilter::Error }
HardCoded == [vibration_strength |-> 1, log_level |-> "Error"]

\* CONFIG before get_or_init: the OnceCell is empty
EmptyCell == [cell |-> "empty"]

\* a config file: missing, empty, not TOML for a Config, or well-formed
Missing == [state |-> "missing", config |-> EmptyCell]
Empty == [state |-> "empty", config |-> EmptyCell]
Garbage == [state |-> "garbage", config |-> EmptyCell]
Valid(c) == [state |-> "valid", config |-> c]

\* include_str!("default_config.toml"), the text written into a new file
DEFAULT_CONFIG == Valid(HardCoded)

Ok(c) == [ok |-> TRUE, config |-> c, err |-> ""]
Err(e) == [ok |-> FALSE, config |-> EmptyCell, err |-> e]

\* The file as setup_config leaves it.  A missing file is created if
\* File::create succeeds, and then holds DEFAULT_CONFIG if write_all
\* succeeds too; a created file that could not be written stays empty.
file_after_setup(f, env) ==
    IF f.state = "missing" /\ env.create
    THEN IF env.write THEN DEFAULT_CONFIG ELSE Empty
    ELSE f

\* setup_config(): Err from write_all (by `?`), from File::open, from
\* read_to_string or from toml::from_str; otherwise the parsed Config.  A
\* failed File::create is not an error by itself: the open that follows fails.
setup_config(f, env) ==
    IF f.state = "missing" /\ env.create /\ ~env.write
    THEN Err("write")
    ELSE LET g == file_after_setup(f, env) IN
         IF g.state = "missing" \/ ~env.open THEN Err("open")
         ELSE IF g.state \in {"empty", "garbage"} THEN Err("parse")
         ELSE Ok(g.config)

\* mutant: the result is used without the fallback
unwrap_unchecked(config_result) == config_result.config

\* config_result.unwrap_or(Config { .. })
unwrap_or_default(config_result) ==
    IF config_result.ok THEN config_result.config ELSE HardCoded

\* initialize() up to block_on(run()): all of it is synchronous.  The error
\* of setup_config is printed on a console; CONFIG is set once; a logger is
\* installed if acprmod.log can be created (no logger was installed before,
\* so init(..).unwrap() returns); the runtime is built and run() starts.
Initialize ==
    /\ pc = "initialize"
    /\ LET config_result == setup_config(file, fs) IN
        /\ file' = file_after_setup(file, fs)
        /\ console' = IF config_result.ok THEN console
                      ELSE Append(console, config_result.err)
        /\ CONFIG' = unwrap_or_default(config_result)
    /\ logger' = IF fs.logfile THEN CONFIG'.log_level ELSE "none"
    /\ pc' = "run"
    /\ UNCHANGED <<fs, errlog, hit_channel, envVars, regVars, lock,
                   stopped_vibration, sampleVars, kind, last, vibes, next,
                   results, speed>>

\* mutant: the Err arm logs and goes on instead of returning
build_error_ignored == "built"

\* where run() is after `if let Err(e) = builder { log::error!(..); return; }`
after_build_error == "returned"

\* run() builds the server: ButtplugServerBuilder::..finish() returns Ok or Err
Build(ok) ==
    /\ pc = "run"
    /\ IF ok
       THEN pc' = "built" /\ errlog' = errlog
       ELSE /\ errlog' = Append(errlog, "error building server")
            /\ pc' = after_build_error
    /\ UNCHANGED <<file, fs, console, logger, hit_channel, envVars, regVars,
                   lock, CONFIG, stopped_vibration, sampleVars, kind, last,
                   vibes, next, results, speed>>

\* client.connect(connector).await returns; an Err is logged at debug level
\* only.  Then run() subscribes to the event stream, spawns the discovery
\* task and suspends in start_scanning().
ConnectReturns(ok) ==
    /\ pc = "built"
    /\ pc' = IF ok THEN "connected" ELSE "unconnected"
    /\ discovery' = "running"
    /\ UNCHANGED <<bootVars, hit_channel, envVars, events, DEVICES, lock,
                   CONFIG, stopped_vibration, sampleVars, kind, last, vibes,
                   next, results, speed>>

\* start_scanning().await returns (Err at least when the client is not
\* connected, logged as an error); run() makes the hit channel, stores its
\* sender in HIT_CHANNEL_TX, clears stopped_vibration and enters the loop.
StartScanReturns(ok) ==
    /\ pc \in {"connected", "unconnected"}
    /\ ok => pc = "connected"
    /\ scanning' = ok
    /\ errlog' = IF ok THEN errlog
                 ELSE Append(errlog, "error scanning for devices")
    /\ hit_channel' = 0
    /\ stopped_vibration' = initial_stopped
    /\ pc' = "sleep"
    /\ UNCHANGED <<file, fs, console, logger, gen, online, scalar, actuated,
                   regVars, lock, CONFIG, sampleVars, kind, last, vibes, next,
                   results, speed>>

\* HIT_CHANNEL_TX holds a sender once run() has reached its loop
channel_is_some == pc \in {"sleep", "await", "done"}

\* hit_hook(), called on the game's thread when a hit lands: sends Event::Hit
\* if HIT_CHANNEL_TX holds a sender.  The receiver `rx` is a local of run()
\* that is never read and, as the loop never ends, never dropped.
hit_hook(cap) ==
    /\ channel_is_some
    /\ hit_channel < cap
    /\ hit_channel' = hit_channel + 1
    /\ UNCHANGED <<bootVars, envVars, regVars, lock, loopVars>>

\* ------------------------------------------------------------------ system
vars == <<bootVars, hit_channel, envVars, regVars, lock, loopVars>>

\* no device seen, nothing registered, the loop's locals not yet alive
Fresh ==
    /\ gen = [d \in Devices |-> 0]
    /\ online = [d \in Devices |-> FALSE]
    /\ scalar = [d \in Devices |-> FALSE]
    /\ actuated = [d \in Devices |-> FALSE]
    /\ events = <<>>
    /\ DEVICES = <<>>
    /\ lock = "free"
    /\ hit_channel = 0
    /\ console = <<>>
    /\ errlog = <<>>
    /\ stopped_vibration = initial_stopped
    /\ sampled = 0
    /\ stun_read = "null"
    /\ hitstop = 0
    /\ in_hitstun = FALSE
    /\ base = NotComputed
    /\ intensity = NotComputed
    /\ kind = "none"
    /\ last = "none"
    /\ vibes = <<>>
    /\ next = 0
    /\ results = <<>>
    /\ speed = NotComputed

\* run() has built the server, spawned the discovery task, started the scan
\* and is about to enter the loop; initialize() has read CONFIG from a
\* well-formed file and installed the logger.  The loop never reads
\* log_level, which is kept at one value here.
Init ==
    /\ Fresh
    /\ scanning = TRUE
    /\ discovery = "running"
    /\ CONFIG \in [vibration_strength : StrengthValues, log_level : {"Error"}]
    /\ file = Valid(CONFIG)
    /\ fs = [create |-> TRUE, write |-> TRUE, open |-> TRUE, logfile |-> TRUE]
    /\ logger = CONFIG.log_level
    /\ pc = "sleep"

Discovery ==
    \/ OnDeviceAdded
    \/ OnDeviceRemoved
    \/ OnOtherEvent

\* The control loop beside the discovery task, under the default
\* configuration.  Each device has one session here; ScanningFinished, which
\* the task ignores, and reconnecting devices are left to SpecRegistry.
InitDefault == Init /\ CONFIG.vibration_strength = 1

Next ==
    \/ \E d \in 1..LoopDevices : DeviceConnects(d, 1, LoopQueue)
    \/ \E d \in 1..LoopDevices : DeviceDisconnects(d, LoopQueue)
    \/ OnDeviceAdded
    \/ OnDeviceRemoved
    \/ \E m1 \in LoopMems : \E m2 \in StunMems : Tick(m1, m2)
    \/ \E o \in {"ok", "err"} : CallReturns(o)
    \/ TickEnds

Spec == InitDefault /\ [][Next]_vars

\* The registry and the discovery task on their own, with the control loop
\* asleep.
NextRegistry ==
    \/ \E d \in Devices : DeviceConnects(d, MaxGen, MaxQueue)
    \/ \E d \in Devices : DeviceDisconnects(d, MaxQueue)
    \/ ScanEnds(MaxQueue)
    \/ OnDeviceAdded
    \/ OnDeviceRemoved
    \/ OnOtherEvent

SpecRegistry == InitDefault /\ [][NextRegistry]_vars

\* The sampling and mapping of one tick on every memory content, read
\* consistently, with no device registered.
NextMap ==
    \/ \E m \in WideMems : Tick(m, m)
    \/ TickEnds

SpecMap == Init /\ [][NextMap]_vars

\* The start fan-out under every configured vibration_strength and every
\* intensity the loop computes.  The speed does not depend on the device, so
\* one device connects and stays; the second read of a tick finds either the
\* same memory or the match just ended (the one case in which the loop halves
\* the intensity).
NextSpeed ==
    \/ DeviceConnects(1, 1, LoopQueue)
    \/ OnDeviceAdded
    \/ \E m1 \in ByteMems : \E m2 \in {m1, NoMatch} : Tick(m1, m2)
    \/ \E o \in {"ok", "err"} : CallReturns(o)
    \/ TickEnds

SpecSpeed == Init /\ [][NextSpeed]_vars

\* The program from the call of initialize(): every state of the config file
\* and every outcome of the file operations, of the server build, of
\* connect() and of start_scanning(); then the loop with one device, and the
\* game's hit hook.
Files ==
    {Missing, Empty, Garbage} \cup
    {Valid(c) : c \in [vibration_strength : StrengthValues,
                       log_level : LogLevels]}

InitStartup ==
    /\ Fresh
    /\ scanning = FALSE
    /\ discovery = "unspawned"
    /\ CONFIG = EmptyCell
    /\ file \in Files
    /\ fs \in [create : BOOLEAN, write : BOOLEAN, open : BOOLEAN,
                logfile : BOOLEAN]
    /\ logger = "none"
    /\ pc = "initialize"

NextStartup ==
    \/ Initialize
    \/ \E ok \in BOOLEAN : Build(ok)
    \/ \E ok \in BOOLEAN : ConnectReturns(ok)
    \/ \E ok \in BOOLEAN : StartScanReturns(ok)
    \/ scanning /\ DeviceConnects(1, 1, LoopQueue)
    \/ OnDeviceAdded
    \/ \E m \in LoopMems : Tick(m, m)
    \/ \E o \in {"ok", "err"} : CallReturns(o)
    \/ TickEnds
    \/ hit_hook(MaxHits)

SpecStartup == InitStartup /\ [][NextStartup]_vars

\* ======================================================== properties
\* the step in which the loop wakes from sleep() and runs a tick up to its
\* first suspension
TickStep == pc = "sleep" /\ pc' # "sleep"

\* the futures of this tick that have put a command on the transport
Sent ==
    {i \in 1..Len(vibes) :
        /\ scalar[Id(vibes[i])]
        /\ i < next \/ (i = next /\ pc = "await")}

\* C1: the stop fan-out happens once per Active-to-Idle transition.  A tick
\* that observes hitstop > 0 is a start fan-out over the registry; the first
\* tick after it that observes hitstop 0 is a stop fan-out with one future per
\* registry entry, each awaited once by the time the tick completes; every
\* tick observing hitstop 0 right after a stop fan-out or a quiet tick issues
\* nothing.
C1_StopOncePerTransition ==
    [][/\ TickStep =>
            /\ hitstop' > 0 => kind' = "start" /\ vibes' = DEVICES
            /\ (hitstop' = 0 /\ last = "start") =>
                    kind' = "stop" /\ vibes' = DEVICES
            /\ (hitstop' = 0 /\ last \in {"stop", "quiet"}) =>
                    kind' = "quiet" /\ vibes' = <<>> /\ pc' = "done"
       /\ (pc' = "done" /\ kind' = "stop") =>
            Len(results') = Len(vibes') /\ stopped_vibration'
      ]_vars

C1_Witness ==
    /\ pc = "done" /\ last = "start" /\ kind = "stop"
    /\ Len(vibes) >= 2
    /\ \A i \in 1..Len(results) : results[i] = "ok"

\* C2 as claimed: every completed tick whose sampled byte is greater than 0
\* was a start fan-out over the whole snapshot and leaves the loop Active.
C2_StartOnEveryPositiveByte ==
    (pc = "done" /\ sampled > 0) =>
        /\ kind = "start"
        /\ Len(results) = Len(vibes)
        /\ ~stopped_vibration

\* C2 amended: a tick is a start fan-out over the registry exactly when the
\* halved byte is greater than 0 (sampled byte 2..255); it then leaves the
\* flag clear, and when it completes every future of the snapshot has run.
C2_StartOnEveryPositiveHalvedByte ==
    [][/\ (TickStep /\ sampled' >= HitstopDivisor) =>
            kind' = "start" /\ vibes' = DEVICES /\ ~stopped_vibration'
       /\ (TickStep /\ sampled' < HitstopDivisor) => kind' # "start"
       /\ (pc' = "done" /\ kind' = "start") =>
            Len(results') = Len(vibes') /\ ~stopped_vibration'
      ]_vars

C2_Witness ==
    /\ pc = "done" /\ kind = "start" /\ sampled = 3
    /\ Len(vibes) >= 2
    /\ \A i \in 1..Len(results) : results[i] = "ok"

\* C3 as claimed: in the first tick, if it observes hitstop 0, no command is
\* put on the transport.
C3_StartsIdle ==
    (last = "none" /\ pc # "sleep" /\ hitstop = 0) => Sent = {}

\* C3 amended: the loop starts with the flag clear; the first tick, if it
\* observes hitstop 0, is a stop fan-out over the registry, and the ticks
\* observing hitstop 0 after it issue nothing.
C3_FirstZeroTickStops ==
    [][(TickStep /\ hitstop' = 0) =>
            /\ last = "none" =>
                    /\ ~stopped_vibration
                    /\ kind' = "stop" /\ vibes' = DEVICES
            /\ last \in {"stop", "quiet"} =>
                    kind' = "quiet" /\ vibes' = <<>>
      ]_vars

C3_Witness ==
    /\ pc = "done" /\ last = "none" /\ kind = "stop"
    /\ vibes # <<>>
    /\ results[1] = "ok"

\* C4: a failed device call does not end the fan-out.  While a call is
\* awaited, every future before it has ended, whatever its outcome; when the
\* tick is done every future of the snapshot has run, each scalar device has
\* had its command (Ok or Err) and the loop can go on to its next sleep.
C4_FailureIsolation ==
    /\ pc = "await" => next = Len(results) + 1 /\ next <= Len(vibes)
    /\ pc = "done" =>
        /\ Len(results) = Len(vibes)
        /\ \A i \in 1..Len(vibes) :
                (results[i] = "noop") <=> ~scalar[Id(vibes[i])]
        /\ ENABLED TickEnds

C4_Witness ==
    /\ pc = "done"
    /\ \E i, j \in 1..Len(results) :
            i < j /\ results[i] = "err" /\ results[j] = "ok"

\* C5 as claimed: while one device call of the tick is in flight, every other
\* future of the tick has been started too.
C5_AllStartedTogether ==
    pc = "await" => \A i \in 1..Len(vibes) : i <= next

\* C6 as claimed: when the DeviceRemoved arm has run, no entry of the registry
\* reports disconnected.
C6_NoDisconnectedLeft ==
    [][(/\ NextEvent("DeviceRemoved")
        /\ events' = Tail(events) \/ discovery' = "panicked")
            => \A i \in 1..Len(DEVICES') : connected(DEVICES'[i])
      ]_vars

\* C7 as claimed: no two entries of the registry have the same identifier.
C7_NoDuplicateIdentifiers ==
    \A i, j \in 1..Len(DEVICES) : i # j => Id(DEVICES[i]) # Id(DEVICES[j])

\* C8 as claimed: while the stopped flag is set no device is actuated.
C8_IdleMeansSilent ==
    stopped_vibration => \A d \in Devices : ~actuated[d]

\* C9 as claimed: the base intensity of a start tick is clamp(r / 28, 0, 1)
\* of the sampled byte r.
C9_BaseIsByteOver28 ==
    (pc = "done" /\ kind = "start") =>
        base * HitstopCeiling = Min(sampled, HitstopCeiling) * IntensityUnit

\* C9 amended: the loop halves the sampled byte r first; for r <= 1 it takes
\* the no-hitstop branch and computes no intensity (the mapping gives 0
\* there); otherwise the base intensity is clamp((r / 2) / 28, 0, 1), which
\* is non-decreasing in r and 1.0 from r = 56 on.
C9_BaseIsHalvedByteOver28 ==
    pc = "done" =>
        /\ hitstop = sampled \div HitstopDivisor
        /\ (kind = "start") <=> (sampled >= HitstopDivisor)
        /\ kind # "start" =>
            /\ base = NotComputed
            /\ hitstop_to_vibe_intensity(sampled \div HitstopDivisor) = 0
        /\ kind = "start" =>
            /\ base * HitstopCeiling =
                  Min(sampled \div HitstopDivisor, HitstopCeiling) * IntensityUnit
            /\ sampled >= HitstopDivisor * HitstopCeiling => base = IntensityUnit
            /\ \A r \in 0..sampled :
                  hitstop_to_vibe_intensity(r \div HitstopDivisor) <= base

C9_Witness ==
    /\ pc = "done" /\ kind = "start"
    /\ sampled = HitstopCeiling
    /\ base * 2 = IntensityUnit

\* C10 as claimed: on a start tick the intensity handed to the devices is
\* half the base intensity when the hitstun bit is clear for both players,
\* and the base intensity when it is set for one of them.
C10_HalvedUnlessHitstun ==
    (pc = "done" /\ kind = "start") =>
        /\ stun_read = "clear" => intensity * BlockedDivisor = base
        /\ stun_read = "set" => intensity = base

\* C17 as claimed: the DeviceRemoved arm removes only entries that report
\* disconnected; every handle that reports connected when the arm runs is
\* still in the registry when it has run (or has unwound).
C17_ConnectedSurvive ==
    [][NextEvent("DeviceRemoved") =>
            \A i \in 1..Len(DEVICES) :
                connected(DEVICES[i]) =>
                    \E j \in 1..Len(DEVICES') : DEVICES'[j] = DEVICES[i]
      ]_vars

\* C18 as claimed: the DeviceRemoved arm never faults, so the discovery task
\* is alive in every state and goes on taking events from the stream.
C18_DiscoveryStaysAlive ==
    discovery = "running"

\* C12: a device without scalar actuation is never sent a command.  The call
\* the loop is suspended in is always on a scalar device; the future of a
\* non-scalar device ends as a no-op, never as an error, and no command ever
\* actuates such a device; when the tick is done every scalar device of the
\* snapshot has had its command all the same.
C12_NonScalarIsNoop ==
    /\ pc = "await" => scalar[Id(vibes[next])]
    /\ \A i \in 1..Len(results) :
            IF scalar[Id(vibes[i])]
            THEN results[i] \in {"ok", "err"}
            ELSE results[i] = "noop"
    /\ \A i \in Sent : scalar[Id(vibes[i])]
    /\ \A d \in Devices : actuated[d] => scalar[d]
    /\ pc = "done" =>
            \A i \in 1..Len(vibes) : scalar[Id(vibes[i])] => i \in Sent

C12_Witness ==
    /\ pc = "done" /\ kind = "start"
    /\ Len(vibes) = 2
    /\ ~scalar[Id(vibes[1])] /\ results[1] = "noop"
    /\ scalar[Id(vibes[2])] /\ results[2] = "ok"
    /\ actuated[Id(vibes[2])] /\ ~actuated[Id(vibes[1])]

\* C16: tick barrier.  While a device call of the tick is awaited the loop
\* neither samples again nor builds another fan-out, the only call in flight
\* is the awaited one, of this tick's snapshot, and every future before it
\* has ended; the loop is back in sleep() only with no future of the tick
\* left; and the stopped flag is set only in the step that ends the last
\* future of a stop fan-out.
C16_TickBarrier ==
    [][/\ pc = "await" =>
            /\ vibes' = vibes /\ kind' = kind
            /\ sampled' = sampled /\ hitstop' = hitstop
            /\ next' >= next
            /\ Len(results) = next - 1
       /\ TickStep => vibes = <<>> /\ results = <<>> /\ kind = "none"
       /\ pc' = "sleep" => vibes' = <<>>
       /\ (pc # "done" /\ pc' = "done") => Len(results') = Len(vibes')
       /\ (~stopped_vibration /\ stopped_vibration') =>
            /\ pc' = "done" /\ kind' = "stop"
            /\ Len(results') = Len(vibes')
      ]_vars

C16_Witness ==
    /\ pc = "await" /\ kind = "stop"
    /\ Len(vibes) = 2 /\ next = 2
    /\ results = <<"err">>
    /\ ~stopped_vibration

\* C11 as claimed: the speed of every start command in flight is
\* clamp(intensity * vibration_strength, 0, 1) and lies in [0, 1], whatever
\* vibration_strength the configuration holds.
C11_SpeedIsClamped ==
    (pc = "await" /\ kind = "start") =>
        /\ speed \in 0..IntensityUnit
        /\ speed = Max(0, Min(intensity * CONFIG.vibration_strength,
                              IntensityUnit))

\* C19: the registry lock is free whenever a task is suspended.  Every state
\* in which the control loop sleeps or awaits a device call, and the
\* discovery task waits for its next event, has the lock free; so a tick that
\* is due can take its snapshot, and an event that is queued can be handled,
\* also while a device call is pending (it may be pending for ever), and
\* after the discovery task has died.
C19_LockFreeAtSuspension ==
    /\ lock = "free"
    /\ pc = "sleep" => ENABLED (\E m \in LoopMems : Tick(m, m))
    /\ (Suspended /\ discovery = "running" /\ events # <<>>) =>
            ENABLED (OnDeviceAdded \/ OnDeviceRemoved)

\* a DeviceRemoved was handled while a device call of the tick is pending
C19_Witness ==
    /\ pc = "await"
    /\ lock = "free"
    /\ Len(DEVICES) < Len(vibes)
    /\ events # <<>>

\* C13: config fallback.  When initialize() finds the config file missing
\* and cannot create it, or finds it empty or not parsable, it prints one
\* error line on the console, sets CONFIG to the hard-coded defaults
\* (vibration_strength 1.0, log level Error) and goes on to run(), whose
\* first step is then enabled; so does every other failure of setup_config,
\* and an error line is printed only when the defaults are used.
C13_ConfigFallback ==
    [][(pc = "initialize" /\ pc' # "initialize") =>
            /\ ((file.state = "missing" /\ ~fs.create)
                    \/ file.state \in {"empty", "garbage"}) =>
                    /\ Len(console') = Len(console) + 1
                    /\ CONFIG' = HardCoded
            /\ ~setup_config(file, fs).ok =>
                    /\ Len(console') = Len(console) + 1
                    /\ CONFIG' = HardCoded
            /\ console' # console => CONFIG' = HardCoded
            /\ CONFIG' \in [vibration_strength : StrengthValues,
                            log_level : LogLevels]
            /\ logger' \in {"none", CONFIG'.log_level}
            /\ pc' = "run"
      ]_vars

\* run() has entered its loop on the defaults after the file could neither
\* be found nor created
C13_Witness ==
    /\ pc = "sleep"
    /\ file.state = "missing" /\ ~fs.create
    /\ console = <<"open">>
    /\ CONFIG = HardCoded

\* C14: a failed server build ends run().  The step that logs the build
\* error leaves run() returned, with the discovery task not spawned, no scan
\* started, no tick run, no future built and no device commanded; and once
\* run() has returned no step of the program is enabled any more.
C14_BuildFailureEndsRun ==
    /\ [](pc = "returned" => ~ENABLED NextStartup)
    /\ [][/\ (pc = "run" /\ errlog' # errlog) =>
                /\ pc' = "returned"
                /\ errlog' = Append(errlog, "error building server")
          /\ pc' = "returned" =>
                /\ discovery' = "unspawned"
                /\ ~scanning'
                /\ last' = "none" /\ kind' = "none"
                /\ vibes' = <<>> /\ DEVICES' = <<>>
                /\ \A d \in Devices : ~actuated'[d]
         ]_vars

C14_Witness ==
    /\ pc = "returned"
    /\ errlog = <<"error building server">>
    /\ discovery = "unspawned"
    /\ CONFIG = HardCoded /\ logger = "Error"

\* C15 as claimed: a hit notification waiting in the hit channel is received
\* by the control loop when it next runs, and that run is one fan-out over
\* the registry.
C15_HitIsReceived ==
    [][(TickStep /\ hit_channel > 0) =>
            /\ hit_channel' = hit_channel - 1
            /\ vibes' = DEVICES
            /\ kind' # "quiet"
      ]_vars

====
